---- MODULE Spec2Model ----
(***************************************************************************)
(* Model of the MYR/SGD mean-reversion research scripts.                   *)
(*                                                                         *)
(*   src/src/backtest.py  fetch_data, run_backtest, the grid search of     *)
(*                        the __main__ block                               *)
(*   src/src/main.py      fetch_data                                       *)
(*                                                                         *)
(* Numbers.  All arithmetic is exact.  Prices live on a geometric grid     *)
(* P0 * b^k, so the log of a price is k in units of ln b, measured from    *)
(* the first observation; one unit is 0.0002 (the default trans_cost), so  *)
(* returns and costs are integers.  z-scores, Sharpe and Sortino ratios    *)
(* involve a square root: they are kept as a sign and a squared rational   *)
(* and compared by cross-multiplication.  Thresholds (entry_z, exit_z) are *)
(* counted in quarters, as every value of the grid in backtest.py is.      *)
(* A float cell of a pandas column is a record [nan, v].                   *)
(***************************************************************************)
EXTENDS Integers, Sequences, FiniteSets, TLC

\* ------------------------------------------------------------------ bounds
\* Longest in-sample table (rows).
MaxLen == 11
\* Largest number of candidates on each axis of the parameter grid.
MaxGrid == 2
\* Number of calendar dates the data sources know.
MaxDates == 2
\* the longest pair of frames compared
MaxPair == 5

\* ------------------------------------------------------- program constants
\* trans_cost=0.0002, the unit of log price.
TransCost == 1
\* len(strategy_ret.dropna()) < 10
MinObs == 10

\* Log-price levels an observation takes (the first one is the origin).
Levels == {0, 3}

\* The candidate lists of the grid search, scaled to the model's window
\* sizes; thresholds in quarters.
windows_all == <<2, 3, 4>>
entries_all == <<2, 4, 5>>
exits_all == <<1, 3, 0>>

\* ------------------------------------------------------------ float cells
NaN == [nan |-> TRUE, v |-> 0]
Num(x) == [nan |-> FALSE, v |-> x]

Abs(x) == IF x < 0 THEN -x ELSE x
Sign(x) == IF x > 0 THEN 1 ELSE IF x < 0 THEN -1 ELSE 0

\* A column built row by row, evaluated once and kept as a tuple.
Column(f) == f \o <<>>

RECURSIVE Sum(_, _, _)
\* f[lo] + ... + f[hi] of an integer sequence
Sum(f, lo, hi) == IF lo > hi THEN 0 ELSE f[hi] + Sum(f, lo, hi - 1)

RECURSIVE cumsumFrom(_, _, _, _)
cumsumFrom(f, i, acc, out) ==
  IF i > Len(f) THEN out
  ELSE cumsumFrom(f, i + 1, acc + f[i], Append(out, acc + f[i]))
\* the running sums of an integer sequence
cumsum(f) == cumsumFrom(f, 1, 0, <<>>)

RECURSIVE cummaxFrom(_, _, _, _)
cummaxFrom(f, i, acc, out) ==
  IF i > Len(f) THEN out
  ELSE LET m == IF i = 1 \/ f[i] > acc THEN f[i] ELSE acc
       IN cummaxFrom(f, i + 1, m, Append(out, m))
\* the running maxima of an integer sequence
cummax(f) == cummaxFrom(f, 1, 0, <<>>)

\* pandas reductions skip NaN cells
Vals(col) == Column([t \in 1..Len(col) |-> IF col[t].nan THEN 0 ELSE col[t].v])
Sqs(col) ==
  Column([t \in 1..Len(col) |-> IF col[t].nan THEN 0 ELSE col[t].v * col[t].v])
Count(col) == Cardinality({t \in 1..Len(col) : ~col[t].nan})
SumCol(col) == Sum(Vals(col), 1, Len(col))
SumSqCol(col) == Sum(Sqs(col), 1, Len(col))

\* Series.shift(-1): the value of the next row
shift_back(col) ==
  Column([t \in 1..Len(col) |-> IF t = Len(col) THEN NaN ELSE col[t + 1]])
\* Series.shift(1)
shift(col) == Column([t \in 1..Len(col) |-> IF t = 1 THEN NaN ELSE col[t - 1]])
\* Series.diff()
diff(col) ==
  Column([t \in 1..Len(col) |->
            IF t = 1 \/ col[t].nan \/ col[t - 1].nan THEN NaN
            ELSE Num(col[t].v - col[t - 1].v)])
\* Series.fillna(x)
fillna(col, x) ==
  Column([t \in 1..Len(col) |-> IF col[t].nan THEN Num(x) ELSE col[t]])
RECURSIVE ffillTo(_, _)
\* the last defined cell at or before t, NaN when there is none
ffillTo(col, t) ==
  IF t = 0 THEN NaN ELSE IF ~col[t].nan THEN col[t] ELSE ffillTo(col, t - 1)
\* Series.ffill()
ffill(col) == Column([t \in 1..Len(col) |-> ffillTo(col, t)])

\* ---------------------------------------------------------------- z-score
\* z = sgn * sqrt(n2 / d2), or NaN
ZNaN == [nan |-> TRUE, sgn |-> 0, n2 |-> 0, d2 |-> 1]

\* rolling(window).mean(), rolling(window).std() and the z-score at row t.
\* With s the window's sum and q its sum of squares, x - mean = a / w with
\* a = w*x - s, and std^2 = D / (w(w-1)) with D = w*q - s^2, hence
\* z^2 = a^2 (w-1) / (D w).  Undefined in the warm-up rows (t < window), for
\* window = 1 (sample std of one value) and for a flat window (0/0).
zscoreAt(ls, window, t) ==
  IF t < window \/ window < 2 THEN ZNaN
  ELSE LET s == Sum(ls, t - window + 1, t)
           q == Sum([i \in t - window + 1..t |-> ls[i] * ls[i]], t - window + 1, t)
           a == window * ls[t] - s
           D == window * q - s * s
       IN IF D = 0 THEN ZNaN
          ELSE [nan |-> FALSE, sgn |-> Sign(a),
                n2 |-> a * a * (window - 1), d2 |-> D * window]

zscore(ls, window) == Column([t \in 1..Len(ls) |-> zscoreAt(ls, window, t)])

\* Comparisons of a z-score with a threshold of q quarters, q >= 0.  Every
\* comparison with NaN is false.
\* z > q/4
ZAbove(z, q) == ~z.nan /\ z.sgn > 0 /\ 16 * z.n2 > q * q * z.d2
\* z < -q/4
ZBelow(z, q) == ~z.nan /\ z.sgn < 0 /\ 16 * z.n2 > q * q * z.d2
\* |z| < q/4
ZInside(z, q) == ~z.nan /\ 16 * z.n2 < q * q * z.d2

\* ----------------------------------------------------------------- signal
\* data['signal'] = 0, then the three masked assignments in source order.
\* the exit assignment made before the two entry assignments
signalRaw_exit_first(z, entry_z, exit_z) ==
  LET s0 == 0
      s1 == IF ZInside(z, exit_z) THEN 0 ELSE s0
      s2 == IF ZAbove(z, entry_z) THEN -1 ELSE s1
      s3 == IF ZBelow(z, entry_z) THEN 1 ELSE s2
  IN Num(s3)

signalRaw(z, entry_z, exit_z) ==
  LET s0 == 0
      s1 == IF ZAbove(z, entry_z) THEN -1 ELSE s0
      s2 == IF ZBelow(z, entry_z) THEN 1 ELSE s1
      s3 == IF ZInside(z, exit_z) THEN 0 ELSE s2
  IN Num(s3)

\* data['signal'].ffill().fillna(0) of the assigned column
signal(zs, entry_z, exit_z) ==
  fillna(ffill(Column([t \in 1..Len(zs) |-> signalRaw(zs[t], entry_z, exit_z)])), 0)

\* ---------------------------------------------------------------- returns
AsCol(ls) == Column([t \in 1..Len(ls) |-> Num(ls[t])])

\* data['log_spread'].diff()
spread_ret(ls) == diff(AsCol(ls))

\* Variant: one flat fee per change of signal, whatever its size.
trade_cost_flat(sig, cost) ==
  LET d == diff(sig)
  IN Column([t \in 1..Len(sig) |->
               IF d[t].nan THEN NaN ELSE Num(IF d[t].v # 0 THEN cost ELSE 0)])

\* data['signal'].diff().abs() * trans_cost
trade_cost(sig, cost) ==
  LET d == diff(sig)
  IN Column([t \in 1..Len(sig) |->
               IF d[t].nan THEN NaN ELSE Num(Abs(d[t].v) * cost)])

\* Variant: the cost of a date charged to the same date's return.
strategy_ret_same_day_cost(sig, sret, tcost) ==
  LET pos == shift(sig)
      c == fillna(tcost, 0)
  IN Column([t \in 1..Len(sig) |->
               IF pos[t].nan \/ sret[t].nan THEN NaN
               ELSE Num(pos[t].v * sret[t].v - c[t].v)])

\* signal.shift(1) * spread_ret - trade_cost.shift(1).fillna(0)
strategy_ret(sig, sret, tcost) ==
  LET pos == shift(sig)
      c == fillna(shift(tcost), 0)
  IN Column([t \in 1..Len(sig) |->
               IF pos[t].nan \/ sret[t].nan THEN NaN
               ELSE Num(pos[t].v * sret[t].v - c[t].v)])

\* strategy_ret.cumsum().dropna(), realigned on assignment: NaN where the
\* return is NaN, else the sum of the defined returns so far
cum_ret(ret) ==
  LET c == cumsum(Vals(ret))
  IN Column([t \in 1..Len(ret) |-> IF ret[t].nan THEN NaN ELSE Num(c[t])])

\* The columns that lines 46-67 write into the frame passed as data; they
\* are written in place, before the early return.
data_columns(ls, window, entry_z, exit_z, cost) ==
  LET zs == zscore(ls, window)
      sig == signal(zs, entry_z, exit_z)
      sret == spread_ret(ls)
      tcost == trade_cost(sig, cost)
      ret == strategy_ret(sig, sret, tcost)
  IN [log_spread |-> ls,
      zscore |-> zs,
      signal |-> sig,
      spread_ret |-> sret,
      trade_cost |-> tcost,
      strategy_ret |-> ret,
      cum_ret |-> cum_ret(ret)]

\* ---------------------------------------------------------------- metrics
\* A ratio mean/std is kept as [kind, num, den]: kind "num" stands for
\* num / sqrt(den) times a positive factor that depends only on the number
\* of observations; "neginf" is -np.inf and "nan" a float NaN.
NegInf == [kind |-> "neginf", num |-> 0, den |-> 1]
RatioNaN == [kind |-> "nan", num |-> 0, den |-> 1]
Ratio(n, d) == [kind |-> "num", num |-> n, den |-> d]
Zero == Ratio(0, 1)

\* sign(num) * num^2 / den orders the ratios
Key(r) == Sign(r.num) * r.num * r.num

\* a > b on floats: false when either side is NaN
Greater(a, b) ==
  IF a.kind = "nan" \/ b.kind = "nan" THEN FALSE
  ELSE IF a.kind = "neginf" THEN FALSE
  ELSE IF b.kind = "neginf" THEN TRUE
  ELSE Key(a) * b.den > Key(b) * a.den

\* mean_ret / std_ret * sqrt(252) if std_ret != 0 else 0
\* (n * sum of squares - sum^2 is n(n-1) times the sample variance)
sharpeOf(ret) ==
  LET n == Count(ret)
      S == SumCol(ret)
      D == n * SumSqCol(ret) - S * S
  IN IF D # 0 THEN Ratio(S, D) ELSE Zero

\* strategy_ret[strategy_ret < 0]
negatives(ret) ==
  Column([t \in 1..Len(ret) |->
            IF ~ret[t].nan /\ ret[t].v < 0 THEN ret[t] ELSE NaN])

\* downside_std = negatives.std(): NaN for fewer than two values;
\* sortino = mean_ret / downside_std * sqrt(252) if downside_std != 0 else 0,
\* where NaN != 0 is true and mean_ret / NaN is NaN
sortinoOf(ret) ==
  LET neg == negatives(ret)
      m == Count(neg)
      Sn == SumCol(neg)
      Dd == m * SumSqCol(neg) - Sn * Sn
  IN IF m < 2 THEN RatioNaN
     ELSE IF Dd # 0 THEN Ratio(SumCol(ret), Dd) ELSE Zero

\* wealth = exp(cum_ret.fillna(0)), peak = wealth.cummax(),
\* drawdown = wealth / peak - 1.  exp is increasing, so wealth and peak are
\* kept by their logarithms and the drawdown by log(1 + drawdown)
\* = log wealth - log peak.
wealth(cum) == Vals(fillna(cum, 0))
\* the maximum of the whole column at every row, in place of cummax()
peak_whole_column(w) ==
  Column([t \in 1..Len(w) |-> cummax(w)[Len(w)]])
peak(w) == cummax(w)
drawdown(w) == LET p == peak(w) IN Column([t \in 1..Len(w) |-> w[t] - p[t]])

RECURSIVE minTo(_, _)
minTo(col, t) ==
  IF t = 1 THEN col[1]
  ELSE LET m == minTo(col, t - 1) IN IF col[t] < m THEN col[t] ELSE m
\* drawdown.min(), as log(1 + max_dd)
max_ddOf(cum) == LET d == drawdown(wealth(cum)) IN minTo(d, Len(d))

\* positions = data['signal'] != 0
positionsOf(sig) == Column([t \in 1..Len(sig) |-> sig[t].v # 0])

\* trade_starts = positions.diff() > 0.  The diff of a boolean column is the
\* exclusive or of a row with the previous one (NaN in the first row), and
\* True > 0 holds, False > 0 and NaN > 0 do not.
trade_starts(positions) ==
  Column([t \in 1..Len(positions) |-> t > 1 /\ positions[t] # positions[t - 1]])

\* trade_starts.sum()
num_tradesOf(positions) ==
  LET starts == trade_starts(positions)
  IN Cardinality({t \in 1..Len(positions) : starts[t]})

RECURSIVE durationsFrom(_, _, _, _)
\* the loop over range(len(positions)) and the append after it
durationsFrom(positions, i, current, acc) ==
  IF i > Len(positions)
    THEN IF current > 0 THEN Append(acc, current) ELSE acc
  ELSE IF positions[i] THEN durationsFrom(positions, i + 1, current + 1, acc)
  ELSE IF current > 0 THEN durationsFrom(positions, i + 1, 0, Append(acc, current))
  ELSE durationsFrom(positions, i + 1, 0, acc)

trade_durationsOf(positions) == durationsFrom(positions, 1, 0, <<>>)

\* cum_position = positions.cumsum()
cum_positionOf(positions) ==
  cumsum(Column([t \in 1..Len(positions) |-> IF positions[t] THEN 1 ELSE 0]))

\* strategy_ret.groupby(cum_position).sum(), then [trade_returns != 0]:
\* a function from the group keys that are left to the group's sum
trade_returnsOf(ret, cum_position) ==
  LET keys == {cum_position[t] : t \in 1..Len(ret)}
      v == Vals(ret)
      total == [g \in keys |->
                  Sum(Column([t \in 1..Len(ret) |->
                                IF cum_position[t] = g THEN v[t] ELSE 0]),
                      1, Len(ret))]
      kept == {g \in keys : total[g] # 0}
  IN [g \in kept |-> total[g]]

\* (trade_returns > 0).mean() if len(trade_returns) > 0 else 0, as a
\* fraction [num, den]
win_rateOf(tr) ==
  IF DOMAIN tr = {} THEN [num |-> 0, den |-> 1]
  ELSE [num |-> Cardinality({g \in DOMAIN tr : tr[g] > 0}),
        den |-> Cardinality(DOMAIN tr)]

\* ----------------------------------------------------------- run_backtest
\* The call run_backtest(data, window, entry_z, exit_z, trans_cost): the
\* one-key dict of the early return, or the pair (metrics, data).
run_backtest(ls, window, entry_z, exit_z, cost) ==
  LET zs == zscore(ls, window)
      sig == signal(zs, entry_z, exit_z)
      sret == spread_ret(ls)
      tcost == trade_cost(sig, cost)
      ret == strategy_ret(sig, sret, tcost)
      cum == cum_ret(ret)
      positions == positionsOf(sig)
      cum_position == cum_positionOf(positions)
      tr == trade_returnsOf(ret, cum_position)
  IN IF Count(ret) < MinObs
       THEN [kind |-> "dict", sharpe |-> NegInf]
       ELSE [kind |-> "tuple",
             metrics |->
               [total_return |-> SumCol(ret),
                sharpe |-> sharpeOf(ret),
                sortino |-> sortinoOf(ret),
                max_dd |-> max_ddOf(cum),
                win_rate |-> win_rateOf(tr),
                num_trades |-> num_tradesOf(positions),
                trade_durations |-> trade_durationsOf(positions),
                trade_returns |-> tr],
             data |->
               [log_spread |-> ls,
                zscore |-> zs,
                signal |-> sig,
                spread_ret |-> sret,
                trade_cost |-> tcost,
                strategy_ret |-> ret,
                cum_ret |-> cum,
                cum_position |-> cum_position],
             \* the local Series of lines 85-87, as logarithms
             locals |->
               [wealth |-> wealth(cum),
                peak |-> peak(wealth(cum)),
                drawdown |-> drawdown(wealth(cum))]]

\* ------------------------------------------------------------------ state
VARIABLES
  phase,        \* "grid": the __main__ block of backtest.py after fetch_data;
                \* "fetch": a call of fetch_data
  \* __main__ of backtest.py
  pc,           \* "grid" (in the loops), "report", "rerun", "done", "raised"
  in_sample,    \* log_spread of the in-sample table
  windows, entries, exits,     \* the three candidate lists
  wi, ei, xi,   \* positions of the three nested loops
  best_sharpe, best_params,
  args,         \* the arguments of the last call of run_backtest
  ret,          \* what that call returned
  visited,      \* history: the combinations evaluated, with their Sharpe
  exception,    \* the exception that ended the script, "" when none
  \* fetch_data
  script,       \* "backtest" or "main": whose fetch_data runs
  fpc,          \* position inside fetch_data
  available,    \* whether pandas_datareader can be imported
  start_date, end_date,
  myr, sgd,     \* the two series read last
  df,           \* the aligned table
  returned,     \* the table handed to the caller
  events,       \* history: the reads attempted, in order
  \* two calls of run_backtest with the same parameters
  frames        \* the two frames passed as data

gridVars ==
  <<pc, in_sample, windows, entries, exits, wi, ei, xi, best_sharpe,
    best_params, args, ret, visited, exception>>
fetchVars ==
  <<script, fpc, available, start_date, end_date, myr, sgd, df, returned, events>>
vars == <<phase, gridVars, fetchVars, frames>>

\* Python's None
None == <<>>

\* ------------------------------------------------- __main__ of backtest.py
\* Tables of n rows: levels relative to the first observation.
Tables(n) ==
  IF n = 0 THEN {<<>>}
  ELSE {s \in [1..n -> Levels] : s[1] = 0}

\* the first k candidates of a list
Prefix(list, k) == SubSeq(list, 1, k)

NoFetch ==
  /\ script = "backtest" /\ fpc = "returned" /\ available = TRUE
  /\ start_date = 1 /\ end_date = 1
  /\ myr = None /\ sgd = None /\ df = None /\ returned = None /\ events = <<>>

\* best_sharpe = -np.inf; best_params = None, before the loops
InitGrid ==
  /\ phase = "grid"
  /\ pc = "grid"
  /\ \E n \in 0..MaxLen : in_sample \in Tables(n)
  /\ \E k \in 1..MaxGrid :
       /\ windows = Prefix(windows_all, k)
       /\ entries = Prefix(entries_all, k)
       /\ exits = Prefix(exits_all, k)
  /\ wi = 1 /\ ei = 1 /\ xi = 1
  /\ best_sharpe = NegInf
  /\ best_params = None
  /\ args = None
  /\ ret = [kind |-> "none"]
  /\ visited = <<>>
  /\ exception = ""
  /\ NoFetch
  /\ frames = None

\* Variant: >= in place of >, so that a later tie replaces the earlier one.
BetterOrEqual(sharpe, best) ==
  IF sharpe.kind = "nan" \/ best.kind = "nan" THEN FALSE
  ELSE ~Greater(best, sharpe)

\* metrics['sharpe'] > best_sharpe
Better(sharpe, best) == Greater(sharpe, best)

\* One pass of the innermost loop body: the call, the unpacking
\* "metrics, _ = ..." and the comparison.  Unpacking the one-key dict of the
\* early return into two names raises ValueError.
GridStep ==
  /\ phase = "grid" /\ pc = "grid"
  /\ \E params \in {<<windows[wi], entries[ei], exits[xi]>>} :
     \E r \in {run_backtest(in_sample, params[1], params[2], params[3], TransCost)} :
     LET lastX == xi = Len(exits)
         lastE == ei = Len(entries)
         lastW == wi = Len(windows)
     IN /\ args' = params
        /\ ret' = r
        /\ IF r.kind = "dict"
             THEN /\ pc' = "raised"
                  /\ exception' = "ValueError"
                  /\ UNCHANGED <<wi, ei, xi, best_sharpe, best_params, visited>>
             ELSE /\ visited' = Append(visited, [params |-> params, sharpe |-> r.metrics.sharpe])
                  /\ IF Better(r.metrics.sharpe, best_sharpe)
                       THEN /\ best_sharpe' = r.metrics.sharpe
                            /\ best_params' = params
                       ELSE UNCHANGED <<best_sharpe, best_params>>
                  /\ xi' = IF lastX THEN 1 ELSE xi + 1
                  /\ ei' = IF ~lastX THEN ei ELSE IF lastE THEN 1 ELSE ei + 1
                  /\ wi' = IF lastX /\ lastE /\ ~lastW THEN wi + 1 ELSE wi
                  /\ pc' = IF lastX /\ lastE /\ lastW THEN "report" ELSE "grid"
                  /\ UNCHANGED exception
  /\ UNCHANGED <<phase, frames, in_sample, windows, entries, exits, fetchVars>>

\* The print after the loops subscripts best_params: TypeError on None.
Report ==
  /\ phase = "grid" /\ pc = "report"
  /\ IF best_params = None
       THEN pc' = "raised" /\ exception' = "TypeError"
       ELSE pc' = "rerun" /\ UNCHANGED exception
  /\ UNCHANGED <<phase, frames, in_sample, windows, entries, exits, wi, ei, xi,
                 best_sharpe, best_params, args, ret, visited, fetchVars>>

\* in_metrics, _ = run_backtest(in_sample, *best_params).  The runs on the
\* out-of-sample and full tables that follow repeat this call on other data
\* and are not followed here.
Rerun ==
  /\ phase = "grid" /\ pc = "rerun"
  /\ \E r \in {run_backtest(in_sample, best_params[1], best_params[2],
                               best_params[3], TransCost)} :
        /\ args' = best_params
        /\ ret' = r
        /\ IF r.kind = "dict"
             THEN pc' = "raised" /\ exception' = "ValueError"
             ELSE pc' = "done" /\ UNCHANGED exception
  /\ UNCHANGED <<phase, frames, in_sample, windows, entries, exits, wi, ei, xi,
                 best_sharpe, best_params, visited, fetchVars>>

\* -------------------------------------------------------------- fetch_data
Dates == 1..MaxDates

\* What a source can deliver: one cell per date, NaN where it has no value.
Series == [Dates -> {NaN} \cup {Num(l) : l \in Levels}]

\* pd.concat([myr, sgd], axis=1): one row per date
concat(a, b) == [d \in Dates |-> [date |-> d, USD_MYR |-> a[d], USD_SGD |-> b[d]]]

\* Variant: dropna(how='all'), which keeps a row with one rate missing.
dropna_all(rows) == SelectSeq(rows, LAMBDA r : ~r.USD_MYR.nan \/ ~r.USD_SGD.nan)

\* DataFrame.dropna(): the rows without a missing cell
dropna(rows) == SelectSeq(rows, LAMBDA r : ~r.USD_MYR.nan /\ ~r.USD_SGD.nan)

\* df['MYR_SGD'] = df['USD_MYR'] / df['USD_SGD'] (a difference of log levels)
\* and df.loc[start_date:end_date]
with_cross_rate(rows, lo, hi) ==
  LET all == [i \in 1..Len(rows) |->
                [date |-> rows[i].date, USD_MYR |-> rows[i].USD_MYR,
                 USD_SGD |-> rows[i].USD_SGD,
                 MYR_SGD |-> Num(rows[i].USD_MYR.v - rows[i].USD_SGD.v)]]
  IN SelectSeq(all, LAMBDA r : lo <= r.date /\ r.date <= hi)

InitFetch ==
  /\ phase = "fetch"
  /\ script \in {"backtest", "main"}
  /\ fpc = "start"
  /\ available \in BOOLEAN
  /\ start_date \in Dates /\ end_date \in Dates /\ start_date <= end_date
  /\ script = "main" => (start_date = 1 /\ end_date = MaxDates)
  /\ myr = None /\ sgd = None /\ df = None /\ returned = None
  /\ events = <<>>
  /\ pc = "done" /\ in_sample = <<>>
  /\ windows = <<>> /\ entries = <<>> /\ exits = <<>>
  /\ wi = 1 /\ ei = 1 /\ xi = 1
  /\ best_sharpe = NegInf /\ best_params = None /\ args = None
  /\ ret = [kind |-> "none"] /\ visited = <<>> /\ exception = ""
  /\ frames = None

\* backtest.py: the try block opens with the import; ImportError goes to
\* the first handler, which reads the local files.
bt_import ==
  /\ phase = "fetch" /\ script = "backtest" /\ fpc = "start"
  /\ IF available
       THEN fpc' = "remote_myr" /\ events' = Append(events, "remote")
       ELSE fpc' = "local_myr" /\ events' = events \o <<"remote", "remote_failed">>
  /\ UNCHANGED <<phase, frames, gridVars, script, available, start_date, end_date,
                 myr, sgd, df, returned>>

\* myr = web.DataReader('DEXMAUS', ...)['DEXMAUS']; any exception goes to
\* the second handler
bt_remote_myr ==
  /\ phase = "fetch" /\ script = "backtest" /\ fpc = "remote_myr"
  /\ \/ \E s \in Series : myr' = s /\ fpc' = "remote_sgd" /\ UNCHANGED events
     \/ /\ fpc' = "local_myr" /\ events' = Append(events, "remote_failed")
        /\ UNCHANGED myr
  /\ UNCHANGED <<phase, frames, gridVars, script, available, start_date, end_date,
                 sgd, df, returned>>

bt_remote_sgd ==
  /\ phase = "fetch" /\ script = "backtest" /\ fpc = "remote_sgd"
  /\ \/ \E s \in Series : sgd' = s /\ fpc' = "remote_concat" /\ UNCHANGED events
     \/ /\ fpc' = "local_myr" /\ events' = Append(events, "remote_failed")
        /\ UNCHANGED sgd
  /\ UNCHANGED <<phase, frames, gridVars, script, available, start_date, end_date,
                 myr, df, returned>>

\* df = pd.concat([myr, sgd], axis=1).dropna(); df.columns = [...]
bt_remote_concat ==
  /\ phase = "fetch" /\ script = "backtest" /\ fpc = "remote_concat"
  /\ df' = dropna(concat(myr, sgd))
  /\ events' = Append(events, "remote_ok")
  /\ fpc' = "finish"
  /\ UNCHANGED <<phase, frames, gridVars, script, available, start_date, end_date,
                 myr, sgd, returned>>

\* Inside either handler: pd.read_csv raises to the caller when it fails.
bt_local_myr ==
  /\ phase = "fetch" /\ script = "backtest" /\ fpc = "local_myr"
  /\ events' = Append(events, "local")
  /\ \/ \E s \in Series : myr' = s /\ fpc' = "local_sgd"
     \/ fpc' = "raised" /\ UNCHANGED myr
  /\ UNCHANGED <<phase, frames, gridVars, script, available, start_date, end_date,
                 sgd, df, returned>>

bt_local_sgd ==
  /\ phase = "fetch" /\ script = "backtest" /\ fpc = "local_sgd"
  /\ events' = Append(events, "local")
  /\ \/ \E s \in Series : sgd' = s /\ fpc' = "local_concat"
     \/ fpc' = "raised" /\ UNCHANGED sgd
  /\ UNCHANGED <<phase, frames, gridVars, script, available, start_date, end_date,
                 myr, df, returned>>

bt_local_concat ==
  /\ phase = "fetch" /\ script = "backtest" /\ fpc = "local_concat"
  /\ df' = dropna(concat(myr, sgd))
  /\ fpc' = "finish"
  /\ UNCHANGED <<phase, frames, gridVars, script, available, start_date, end_date,
                 myr, sgd, returned, events>>

\* df['MYR_SGD'] = ...; return df.loc[start_date:end_date]
bt_return ==
  /\ phase = "fetch" /\ script = "backtest" /\ fpc = "finish"
  /\ returned' = with_cross_rate(df, start_date, end_date)
  /\ fpc' = "returned"
  /\ UNCHANGED <<phase, frames, gridVars, script, available, start_date, end_date,
                 myr, sgd, df, events>>

\* main.py: the import ran when the module was loaded; fetch_data tests
\* PANDAS_DATAREADER_AVAILABLE.
main_check ==
  /\ phase = "fetch" /\ script = "main" /\ fpc = "start"
  /\ IF available
       THEN fpc' = "remote_myr" /\ events' = Append(events, "remote")
       ELSE fpc' = "local_myr" /\ UNCHANGED events
  /\ UNCHANGED <<phase, frames, gridVars, script, available, start_date, end_date,
                 myr, sgd, df, returned>>

\* myr = web.DataReader('DEXMAUS', ...), inside the try
main_remote_myr ==
  /\ phase = "fetch" /\ script = "main" /\ fpc = "remote_myr"
  /\ \/ \E s \in Series : myr' = s /\ fpc' = "remote_sgd" /\ UNCHANGED events
     \/ /\ fpc' = "local_myr" /\ events' = Append(events, "remote_failed")
        /\ UNCHANGED myr
  /\ UNCHANGED <<phase, frames, gridVars, script, available, start_date, end_date,
                 sgd, df, returned>>

main_remote_sgd ==
  /\ phase = "fetch" /\ script = "main" /\ fpc = "remote_sgd"
  /\ \/ \E s \in Series : sgd' = s /\ fpc' = "remote_concat" /\ UNCHANGED events
     \/ /\ fpc' = "local_myr" /\ events' = Append(events, "remote_failed")
        /\ UNCHANGED sgd
  /\ UNCHANGED <<phase, frames, gridVars, script, available, start_date, end_date,
                 myr, df, returned>>

\* The renaming of the columns (ValueError on a frame of another shape),
\* concat, dropna and the return, still inside the try.
main_remote_concat ==
  /\ phase = "fetch" /\ script = "main" /\ fpc = "remote_concat"
  /\ \/ /\ df' = dropna(concat(myr, sgd))
        /\ returned' = df'
        /\ events' = Append(events, "remote_ok")
        /\ fpc' = "returned"
     \/ /\ fpc' = "local_myr" /\ events' = Append(events, "remote_failed")
        /\ UNCHANGED <<df, returned>>
  /\ UNCHANGED <<phase, frames, gridVars, script, available, start_date, end_date,
                 myr, sgd>>

\* After the if: pd.read_csv, outside any try
main_local_myr ==
  /\ phase = "fetch" /\ script = "main" /\ fpc = "local_myr"
  /\ events' = Append(events, "local")
  /\ \/ \E s \in Series : myr' = s /\ fpc' = "local_sgd"
     \/ fpc' = "raised" /\ UNCHANGED myr
  /\ UNCHANGED <<phase, frames, gridVars, script, available, start_date, end_date,
                 sgd, df, returned>>

main_local_sgd ==
  /\ phase = "fetch" /\ script = "main" /\ fpc = "local_sgd"
  /\ events' = Append(events, "local")
  /\ \/ \E s \in Series : sgd' = s /\ fpc' = "local_concat"
     \/ fpc' = "raised" /\ UNCHANGED sgd
  /\ UNCHANGED <<phase, frames, gridVars, script, available, start_date, end_date,
                 myr, df, returned>>

\* The column selection (KeyError when the column is missing), concat,
\* dropna and the return
main_local_concat ==
  /\ phase = "fetch" /\ script = "main" /\ fpc = "local_concat"
  /\ \/ /\ df' = dropna(concat(myr, sgd))
        /\ returned' = df'
        /\ fpc' = "returned"
     \/ fpc' = "raised" /\ UNCHANGED <<df, returned>>
  /\ UNCHANGED <<phase, frames, gridVars, script, available, start_date, end_date,
                 myr, sgd, events>>

\* ---------------------------------------------------------- specification
Init == InitGrid \/ InitFetch

Next ==
  \/ GridStep
  \/ Report
  \/ Rerun
  \/ bt_import
  \/ bt_remote_myr
  \/ bt_remote_sgd
  \/ bt_remote_concat
  \/ bt_local_myr
  \/ bt_local_sgd
  \/ bt_local_concat
  \/ bt_return
  \/ main_check
  \/ main_remote_myr
  \/ main_remote_sgd
  \/ main_remote_concat
  \/ main_local_myr
  \/ main_local_sgd
  \/ main_local_concat

Spec == Init /\ [][Next]_vars

\* ------------------------------------- two calls with the same parameters
\* Two frames of the same dates, each with its own prices.
InitPair ==
  /\ phase = "pair"
  /\ pc = "call"
  /\ \E n \in 1..MaxPair : \E a \in Tables(n) : \E b \in Tables(n) :
       frames = <<[log_spread |-> a], [log_spread |-> b]>>
  /\ in_sample = <<>>
  /\ windows = Prefix(windows_all, MaxGrid)
  /\ entries = Prefix(entries_all, MaxGrid)
  /\ exits = Prefix(exits_all, MaxGrid)
  /\ wi = 1 /\ ei = 1 /\ xi = 1
  /\ best_sharpe = NegInf /\ best_params = None /\ args = None
  /\ ret = [kind |-> "none"] /\ visited = <<>> /\ exception = ""
  /\ NoFetch

\* run_backtest(data, window, entry_z, exit_z) on each of the two frames
RunPair ==
  /\ phase = "pair" /\ pc = "call"
  /\ \E w \in 1..Len(windows) : \E e \in 1..Len(entries) :
     \E x \in 1..Len(exits) :
       /\ args' = <<windows[w], entries[e], exits[x]>>
       /\ frames' = [i \in 1..2 |->
                       data_columns(frames[i].log_spread, windows[w],
                                    entries[e], exits[x], TransCost)] \o <<>>
  /\ pc' = "done"
  /\ UNCHANGED <<phase, in_sample, windows, entries, exits, wi, ei, xi,
                 best_sharpe, best_params, ret, visited, exception, fetchVars>>

NextPair == RunPair
SpecPair == InitPair /\ [][NextPair]_vars

\* ================================================================ claims
\* What the last call of run_backtest handed back, when it ran to the end.
Returned == phase = "grid" /\ ret.kind = "tuple"
Rows == 1..Len(ret.data.signal)
Sig(t) == ret.data.signal[t].v
Z(t) == ret.data.zscore[t]
Cost(t) == ret.data.trade_cost[t]
Ret(t) == ret.data.strategy_ret[t]
LS(t) == ret.data.log_spread[t]

\* the rows at which a maximal run of nonzero signal begins
RunStarts == {t \in Rows : Sig(t) # 0 /\ (t = 1 \/ Sig(t - 1) = 0)}
\* the run a row in position belongs to, named by the row it begins at
RunOf(t) == CHOOSE b \in RunStarts : b <= t /\ \A i \in b..t : Sig(i) # 0

\* C1: at every date with a defined z-score the signal is -1 above entry_z,
\* +1 below -entry_z, 0 inside the exit band and otherwise, between the two
\* thresholds, the signal of the date before (stated for exit_z < entry_z,
\* where the cases do not overlap).
C1_Hysteresis ==
  (Returned /\ args[3] < args[2]) =>
    \A t \in Rows :
      ~Z(t).nan =>
        Sig(t) = IF ZAbove(Z(t), args[2]) THEN -1
                 ELSE IF ZBelow(Z(t), args[2]) THEN 1
                 ELSE IF ZInside(Z(t), args[3]) THEN 0
                 ELSE IF t = 1 THEN 0 ELSE Sig(t - 1)

\* C2: when run_backtest answers with the sentinel Sharpe = -infinity, the
\* grid-search loop takes that answer without an exception and goes on.
C2_SentinelConsumed ==
  (phase = "grid" /\ ret.kind = "dict") =>
    (ret.sharpe = NegInf /\ pc # "raised" /\ exception = "")

\* The combinations of the grid in iteration order: windows outermost,
\* exits innermost.
GridSize == Len(windows) * Len(entries) * Len(exits)
Combination(i) ==
  <<windows[((i - 1) \div (Len(entries) * Len(exits))) + 1],
    entries[(((i - 1) \div Len(exits)) % Len(entries)) + 1],
    exits[((i - 1) % Len(exits)) + 1]>>
AfterLoops == phase = "grid" /\ pc \in {"report", "rerun", "done"}
Same(a, b) == ~Greater(a, b) /\ ~Greater(b, a)

\* C3: once the loops have visited the whole Cartesian product in order,
\* best_sharpe is the largest Sharpe seen and best_params the first
\* combination that reached it.
C3_FirstMaximum ==
  AfterLoops =>
    /\ Len(visited) = GridSize
    /\ \A i \in 1..GridSize : visited[i].params = Combination(i)
    /\ \E j \in 1..GridSize :
         /\ best_params = visited[j].params
         /\ best_sharpe = visited[j].sharpe
         /\ \A i \in 1..GridSize : ~Greater(visited[i].sharpe, best_sharpe)
         /\ \A i \in 1..(j - 1) : Greater(best_sharpe, visited[i].sharpe)

\* C3's case: the maximum is not at the first combination and a later
\* combination ties with it.
C3_Witness ==
  /\ AfterLoops
  /\ \E j \in 2..GridSize :
       /\ best_params = visited[j].params
       /\ \E i \in (j + 1)..GridSize : Same(visited[i].sharpe, best_sharpe)

\* C4: a grid of one window, one entry and one exit threshold ends with
\* best_params equal to that combination, whatever its Sharpe, and nothing
\* raises.
C4_SingleElementGrid ==
  (phase = "grid" /\ pc # "grid" /\ GridSize = 1) =>
    (best_params = <<windows[1], entries[1], exits[1]>> /\ exception = "")

\* C5: num_trades is the number of maximal runs of nonzero signal, which is
\* the number of durations averaged into avg_duration.
C5_NumTrades ==
  Returned =>
    /\ ret.metrics.num_trades = Cardinality(RunStarts)
    /\ ret.metrics.num_trades = Len(ret.metrics.trade_durations)

\* C6: the groups behind the per-trade returns are the runs: two dates in
\* position share a group exactly when they lie in the same run, and there
\* are no more per-trade returns than runs.
C6_TradeGroups ==
  Returned =>
    /\ \A t, u \in {i \in Rows : Sig(i) # 0} :
         (ret.data.cum_position[t] = ret.data.cum_position[u]) <=> (RunOf(t) = RunOf(u))
    /\ Cardinality(DOMAIN ret.metrics.trade_returns) <= Cardinality(RunStarts)

\* the defined returns, and the negative ones
Defined == {t \in Rows : ~Ret(t).nan}
Negative == {t \in Defined : Ret(t).v < 0}

\* C7: Sharpe is 0 when the returns have no spread, Sortino is 0 when the
\* negative returns have no spread or fewer than two of them exist, and a
\* path of zero returns gives Sharpe = Sortino = MaxDrawdown = numTrades = 0.
C7_DegenerateStatistics ==
  Returned =>
    /\ (\A t, u \in Defined : Ret(t) = Ret(u)) => ret.metrics.sharpe = Zero
    /\ (\A t, u \in Negative : Ret(t) = Ret(u)) => ret.metrics.sortino = Zero
    /\ (\A t \in Defined : Ret(t).v = 0) =>
         /\ ret.metrics.sharpe = Zero
         /\ ret.metrics.sortino = Zero
         /\ ret.metrics.max_dd = 0
         /\ ret.metrics.num_trades = 0

\* C8: from the second date on the cost is never negative, is positive
\* exactly where the signal differs from the date before, is trans_cost for
\* an entry or an exit and twice trans_cost for a switch between +1 and -1.
C8_TradeCost ==
  Returned =>
    \A t \in Rows \ {1} :
      /\ ~Cost(t).nan
      /\ Cost(t).v >= 0
      /\ (Cost(t).v > 0) <=> (Sig(t) # Sig(t - 1))
      /\ (Sig(t) * Sig(t - 1) = -1) => Cost(t).v = 2 * TransCost
      /\ (Sig(t) # Sig(t - 1) /\ Sig(t) * Sig(t - 1) = 0) => Cost(t).v = TransCost

\* C8's case: the path holds an entry from flat and a direct switch.
C8_Witness ==
  /\ Returned
  /\ \E t \in Rows \ {1} : Sig(t - 1) = 0 /\ Sig(t) # 0
  /\ \E t \in Rows \ {1} : Sig(t) * Sig(t - 1) = -1

\* C9: from the second date on the return is the position of the date
\* before times the move of the log spread, less the cost of the date
\* before (nothing for the first date, whose cost is undefined).
C9_LaggedReturn ==
  Returned =>
    \A t \in Rows \ {1} :
      /\ ~Ret(t).nan
      /\ Ret(t).v = Sig(t - 1) * (LS(t) - LS(t - 1))
                    - (IF t = 2 THEN 0 ELSE Cost(t - 1).v)

\* C9's case: the signal changes at a date whose own spread move is not
\* zero, so that a return computed from the new position, or charged with
\* the new cost, would differ.
C9_Witness ==
  /\ Returned
  /\ \E t \in Rows \ {1} :
       /\ t < Len(ret.data.signal)
       /\ Sig(t) # Sig(t - 1)
       /\ LS(t) # LS(t - 1)
       /\ Ret(t + 1).v # Sig(t) * (LS(t + 1) - LS(t)) - 0
       /\ Cost(t).v > 0

Has(e) == \E i \in 1..Len(events) : events[i] = e
RemoteUnavailable == script = "main" /\ ~available

\* C10: in both fetch_data functions the remote source comes first, a local
\* file is read only after the remote attempt failed or was unavailable,
\* never after it succeeded; a failed local read raises and hands nothing
\* back; and every row handed back has both rates.
C10_FetchOrder ==
  phase = "fetch" =>
    /\ (events # <<>> /\ ~RemoteUnavailable) => events[1] = "remote"
    /\ \A i \in 1..Len(events) :
         events[i] = "local" =>
           \/ \E j \in 1..(i - 1) : events[j] = "remote_failed"
           \/ RemoteUnavailable
    /\ Has("remote_ok") => ~Has("local")
    /\ fpc = "raised" => (returned = None /\ events[Len(events)] = "local")
    /\ fpc = "returned" =>
         \A i \in 1..Len(returned) :
           ~returned[i].USD_MYR.nan /\ ~returned[i].USD_SGD.nan

\* C10's case: the remote attempt failed, the local files were read, they
\* held a gap, and rows came back.
C10_Witness ==
  /\ phase = "fetch" /\ fpc = "returned"
  /\ Has("remote_failed") /\ Has("local")
  /\ \E d \in Dates : myr[d].nan \/ sgd[d].nan
  /\ returned # <<>>

\* log of the wealth index, of its running peak, and log(1 + max_dd) of the
\* last call
Wealth(t) == ret.locals.wealth[t]
Peak(t) == ret.locals.peak[t]
MaxDD == ret.metrics.max_dd
NeverBelowPeak == \A t \in Rows : \A i \in 1..t : Wealth(t) >= Wealth(i)

\* C11: the maximum drawdown that run_backtest returns is <= 0; the wealth
\* index is 1 (logarithm 0) on the first date, an undefined cumulative
\* return counting as 0; peak[t] is the largest wealth up to t, so
\* wealth[t] <= peak[t]; and max_dd is 0 exactly when wealth never falls
\* below its running peak.
C11_MaxDrawdown ==
  Returned =>
    /\ MaxDD <= 0
    /\ ret.data.cum_ret[1].nan /\ Wealth(1) = 0
    /\ \A t \in Rows :
         /\ Wealth(t) = IF ret.data.cum_ret[t].nan THEN 0
                                                  ELSE ret.data.cum_ret[t].v
         /\ \A i \in 1..t : Wealth(i) <= Peak(t)
         /\ \E i \in 1..t : Wealth(i) = Peak(t)
         /\ Wealth(t) <= Peak(t)
    /\ (MaxDD = 0) <=> NeverBelowPeak

\* C11's case: wealth rose above its start, fell below the peak it had
\* reached, and the call returned a strictly negative drawdown.
C11_Witness ==
  /\ Returned
  /\ MaxDD < 0
  /\ \E t \in Rows : Peak(t) > 0 /\ Wealth(t) < Peak(t)

\* C11's other case: wealth moved and never fell below its running peak.
C11_WitnessNoDrawdown ==
  /\ Returned
  /\ MaxDD = 0
  /\ \E t \in Rows : Wealth(t) > 0

\* the rows before t whose z-score is defined, and the signal at the last
\* of them (0 when there is none)
DefinedBefore(t) == {u \in 1..(t - 1) : ~Z(u).nan}
PreviousDefinedSignal(t) ==
  IF DefinedBefore(t) = {} THEN 0
  ELSE Sig(CHOOSE u \in DefinedBefore(t) : \A v \in DefinedBefore(t) : v <= u)
ConstantSeries == \A t \in Rows : LS(t) = LS(1)

\* C12: at every date where the z-score is undefined (warm-up, or a zero
\* rolling standard deviation) the signal is the previous defined signal,
\* flat when none has been defined yet, so that an open position is held
\* through an undefined z-score; and the signal of a constant series is
\* flat at every date.
C12_HeldThroughUndefined ==
  Returned =>
    /\ \A t \in Rows : Z(t).nan => Sig(t) = PreviousDefinedSignal(t)
    /\ ConstantSeries => \A t \in Rows : Sig(t) = 0

\* the rows at which both an entry mask and the exit mask are true
Overlap == {t \in Rows : /\ ZInside(Z(t), args[3])
                          /\ (ZAbove(Z(t), args[2]) \/ ZBelow(Z(t), args[2]))}

\* C13: the exit assignment comes last: at every date with |z| < exit_z the
\* signal is 0, also where z > entry_z or z < -entry_z holds at the same
\* date, which happens only when exit_z >= entry_z; the call returns for
\* such parameters and every signal value is -1, 0 or 1.
C13_ExitPrecedence ==
  /\ Returned =>
       /\ \A t \in Rows : ZInside(Z(t), args[3]) => Sig(t) = 0
       /\ \A t \in Rows : ~ret.data.signal[t].nan /\ Sig(t) \in {-1, 0, 1}
       /\ Overlap # {} => args[3] >= args[2]
  /\ (phase = "grid" /\ ret.kind = "dict") => Len(in_sample) <= MinObs

\* C13's case: exit_z >= entry_z, and a date at which an entry mask and the
\* exit mask are both true came back flat.
C13_Witness ==
  /\ Returned
  /\ args[3] >= args[2]
  /\ \E t \in Overlap : Sig(t) = 0

\* the two frames after the two calls
Called == phase = "pair" /\ pc = "done"
FrameA == frames[1]
FrameB == frames[2]
AgreeUpTo(t) == \A i \in 1..t : FrameA.log_spread[i] = FrameB.log_spread[i]

\* C14: no look-ahead. For two price series that agree on every date up to
\* and including t, with the same window, thresholds and cost, the z-score,
\* signal, trade_cost and strategy_ret are identical at every date up to
\* and including t: prices after t influence no value at or before t.
C14_NoLookAhead ==
  Called =>
    \A t \in 1..Len(FrameA.log_spread) :
      AgreeUpTo(t) =>
        \A i \in 1..t :
          /\ FrameA.zscore[i] = FrameB.zscore[i]
          /\ FrameA.signal[i] = FrameB.signal[i]
          /\ FrameA.trade_cost[i] = FrameB.trade_cost[i]
          /\ FrameA.strategy_ret[i] = FrameB.strategy_ret[i]

\* C14's case: the two series agree up to t and part at t + 1, a position
\* was taken and a return earned by date t, and the values after t differ.
C14_Witness ==
  /\ Called
  /\ \E t \in 1..(Len(FrameA.log_spread) - 1) :
       /\ AgreeUpTo(t)
       /\ FrameA.log_spread[t + 1] # FrameB.log_spread[t + 1]
       /\ FrameA.signal[t].v # 0
       /\ ~FrameA.strategy_ret[t].nan /\ FrameA.strategy_ret[t].v # 0
       /\ FrameA.zscore[t + 1] # FrameB.zscore[t + 1]
       /\ FrameA.signal[t + 1] # FrameB.signal[t + 1]
====
